---- MODULE Spec2Model ----
(***************************************************************************)
(* Model of hooks/stop.py: the session-stop hook.                          *)
(*                                                                         *)
(*   SpecExtract  extract_session_info applied to bounded transcripts,     *)
(*                one loop iteration per step, then the post-pass.         *)
(*   Spec         main(): invocations for one log directory that run one   *)
(*                after the other, every file operation able to fail.      *)
(*   SpecSeq      Spec with envelopes that parse and files that do not     *)
(*                fail.                                                    *)
(*   SpecConc     main(): invocations that overlap, no file faults.        *)
(*                                                                         *)
(* Python strings are TLA+ strings (Len, \o and SubSeq act on them).  A    *)
(* JSON value is a record [t, s, n]: t its JSON type, s its text (str) or  *)
(* item text (list, dict), n its number (num) or item count (list, dict).  *)
(***************************************************************************)
EXTENDS Integers, Sequences, FiniteSets, TLC

VARIABLES
    messages,   \* extract_session_info: its argument
    idx,        \* extract_session_info: records consumed by the for loop
    info,       \* extract_session_info: the info dict
    epc,        \* extract_session_info: "loop", "postpass", "returned", "raised"
    proc,       \* main: per invocation, its position and locals
    fs,         \* main: the session log directory's files
    started     \* main: invocations started so far

vars == <<messages, idx, info, epc, proc, fs, started>>
evars == <<messages, idx, info, epc>>
mvars == <<proc, fs, started>>

-----------------------------------------------------------------------------
(* Bounds of the model *)

\* longest transcript built from the record alphabet
MaxLen == 2
\* longest transcript of the bulk families (past every cap)
MaxBulk == 22
\* invocations of main() in one behaviour
MaxInv == 2

(* Program constants *)
PROMPT_LIMIT == 200
COMMAND_LIMIT == 100
ERROR_LIMIT == 150
FILES_CAP == 20
COMMANDS_CAP == 15
ERRORS_CAP == 10
SHOWN_PROMPTS == 5
SHOWN_FILES == 10
SHOWN_COMMANDS == 5
SHOWN_ERRORS == 3
SHOWN_ERROR_LEN == 100

-----------------------------------------------------------------------------
(* Python strings *)

Min(a, b) == IF a < b THEN a ELSE b

\* s[:n]
Prefix(s, n) == SubSeq(s, 1, Min(n, Len(s)))

\* c * n
RECURSIVE Rep(_, _)
Rep(c, n) ==
    IF n <= 0 THEN ""
    ELSE IF n = 1 THEN c
    ELSE Rep(c, n \div 2) \o Rep(c, n - (n \div 2))

Upper == <<"A","B","C","D","E","F","G","H","I","J","K","L","M",
           "N","O","P","Q","R","S","T","U","V","W","X","Y","Z">>
Lower == <<"a","b","c","d","e","f","g","h","i","j","k","l","m",
           "n","o","p","q","r","s","t","u","v","w","x","y","z">>

LowerChar(c) ==
    IF \E k \in 1..26 : Upper[k] = c
    THEN Lower[CHOOSE k \in 1..26 : Upper[k] = c]
    ELSE c

\* str.lower()
RECURSIVE StrLower(_)
StrLower(s) ==
    IF Len(s) = 0 THEN ""
    ELSE IF Len(s) = 1 THEN LowerChar(s)
    ELSE StrLower(SubSeq(s, 1, Len(s) \div 2))
         \o StrLower(SubSeq(s, (Len(s) \div 2) + 1, Len(s)))

\* pat in s
Contains(s, pat) ==
    \E k \in 1..(Len(s) - Len(pat) + 1) : SubSeq(s, k, k + Len(pat) - 1) = pat

Whitespace == {" ", "\t", "\n", "\r"}

\* bool(s.strip())
StripTruthy(s) == \E k \in 1..Len(s) : SubSeq(s, k, k) \notin Whitespace


\* Truncate with the comparison off by one: a string at the limit is cut too
TruncateAtLimit(s, limit) == IF Len(s) >= limit THEN Prefix(s, limit) \o "..." ELSE s

\* content[:limit] + "..." if len(content) > limit else content
Truncate(s, limit) == IF Len(s) > limit THEN Prefix(s, limit) \o "..." ELSE s

-----------------------------------------------------------------------------
(* JSON values as json.loads returns them *)

Absent == [t |-> "absent", s |-> "", n |-> 0]
JNull == [t |-> "null", s |-> "", n |-> 0]
JStr(s) == [t |-> "str", s |-> s, n |-> 0]
JNum(n) == [t |-> "num", s |-> "", n |-> n]
\* a list of n copies of the string item
JList(item, n) == [t |-> "list", s |-> item, n |-> n]
\* {} (n = 0) or {"text": item} (n = 1)
JDict(item, n) == [t |-> "dict", s |-> item, n |-> n]

\* bool(v)
Truthy(v) ==
    CASE v.t = "str" -> v.s # ""
      [] v.t = "num" -> v.n # 0
      [] v.t \in {"list", "dict"} -> v.n > 0
      [] OTHER -> FALSE

\* whether hash(v) is defined
Hashable(v) == v.t \notin {"list", "dict"}

RECURSIVE JoinRep(_, _)
JoinRep(x, n) ==
    IF n <= 0 THEN "" ELSE IF n = 1 THEN x ELSE x \o ", " \o JoinRep(x, n - 1)

\* repr(v)
PyRepr(v) ==
    CASE v.t = "str" -> "'" \o v.s \o "'"
      [] v.t = "num" -> ToString(v.n)
      [] v.t = "null" -> "None"
      [] v.t = "list" -> "[" \o JoinRep("'" \o v.s \o "'", v.n) \o "]"
      [] v.t = "dict" -> IF v.n = 0 THEN "{}" ELSE "{'text': '" \o v.s \o "'}"
      [] OTHER -> ""

\* str(v)
PyStr(v) == IF v.t = "str" THEN v.s ELSE PyRepr(v)

(* The value of a record's "input" key: a dict with the three keys the code
   reads, or some other JSON value (t = "str"). *)
NoInput == [t |-> "absent", s |-> "", file_path |-> Absent, path |-> Absent,
            command |-> Absent]
InputDict(fp, p, c) == [t |-> "dict", s |-> "", file_path |-> fp, path |-> p,
                        command |-> c]
InputStr(s) == [t |-> "str", s |-> s, file_path |-> Absent, path |-> Absent,
                command |-> Absent]

InputRepr(v) ==
    IF v.t = "str" THEN "'" \o v.s \o "'"
    ELSE "{"
         \o (IF v.file_path.t = "absent" THEN ""
             ELSE "'file_path': " \o PyRepr(v.file_path) \o ", ")
         \o (IF v.path.t = "absent" THEN ""
             ELSE "'path': " \o PyRepr(v.path) \o ", ")
         \o (IF v.command.t = "absent" THEN ""
             ELSE "'command': " \o PyRepr(v.command) \o ", ")
         \o "}"

(* One decoded transcript line.  obj: whether it is a JSON object; top: its
   value when it is not; the other fields: the keys the code looks at, Absent
   when the object lacks the key. *)
Obj == [obj |-> TRUE, top |-> Absent, type |-> Absent, role |-> Absent,
        content |-> Absent, message |-> Absent, tool |-> Absent,
        name |-> Absent, input |-> NoInput, output |-> Absent,
        error |-> Absent]
NonObj(v) == [Obj EXCEPT !.obj = FALSE, !.top = v]

ScalarKeys == <<"type", "role", "content", "message", "tool", "name",
                "output", "error">>

\* key in msg
Has(msg, key) == msg[key].t # "absent"

\* msg.get(key, default)
Get(msg, key, default) == IF Has(msg, key) THEN msg[key] ELSE default

RECURSIVE KeysRepr(_, _)
KeysRepr(msg, k) ==
    IF k > Len(ScalarKeys) THEN ""
    ELSE (IF Has(msg, ScalarKeys[k])
          THEN "'" \o ScalarKeys[k] \o "': " \o PyRepr(msg[ScalarKeys[k]]) \o ", "
          ELSE "")
         \o KeysRepr(msg, k + 1)

\* str(msg)
MsgStr(msg) ==
    IF ~msg.obj THEN PyStr(msg.top)
    ELSE "{" \o KeysRepr(msg, 1)
         \o (IF msg.input.t = "absent" THEN ""
             ELSE "'input': " \o InputRepr(msg.input))
         \o "}"

-----------------------------------------------------------------------------
(* extract_session_info *)

\* the info dict before the loop
InitInfo(msgs) ==
    [user_prompts |-> <<>>, tools_used |-> <<>>, files_modified |-> <<>>,
     files_created |-> <<>>, files_read |-> <<>>, commands_run |-> <<>>,
     errors_encountered |-> <<>>, total_messages |-> Len(msgs)]

\* x in lst
InList(x, lst) == \E k \in 1..Len(lst) : lst[k] = x

\* if x not in lst: lst.append(x)
AppendNew(lst, x) == IF InList(x, lst) THEN lst ELSE Append(lst, x)

\* msg_type = msg.get("type", "")
MsgType(msg) == Get(msg, "type", JStr(""))

\* msg_type == "human" or msg.get("role") == "user"
IsPromptSource(msg) ==
    MsgType(msg) = JStr("human") \/ Get(msg, "role", JNull) = JStr("user")

\* content = msg.get("content", msg.get("message", ""))
PromptContent(msg) == Get(msg, "content", Get(msg, "message", JStr("")))

\* PromptCaptured without the strip() test
CapturedAnyString(content) == content.t = "str"

\* isinstance(content, str) and content.strip()
PromptCaptured(content) == content.t = "str" /\ StripTruthy(content.s)

\* the prompt rule
PromptRule(inf, msg) ==
    IF IsPromptSource(msg) /\ PromptCaptured(PromptContent(msg))
    THEN [inf EXCEPT !.user_prompts =
              Append(@, Truncate(PromptContent(msg).s, PROMPT_LIMIT))]
    ELSE inf

\* msg_type == "tool_use" or "tool" in msg
IsToolUse(msg) == MsgType(msg) = JStr("tool_use") \/ Has(msg, "tool")

\* tool_name = msg.get("name", msg.get("tool", ""))
ToolName(msg) == Get(msg, "name", Get(msg, "tool", JStr("")))

\* isinstance(msg.get("input", {}), dict)
InputIsDict(msg) == msg.input.t \in {"absent", "dict"}

\* file_path = tool_input.get("file_path", tool_input.get("path", ""))
FilePath(msg) ==
    IF msg.input.file_path.t # "absent" THEN msg.input.file_path
    ELSE IF msg.input.path.t # "absent" THEN msg.input.path
    ELSE JStr("")

MutationTools == {JStr("Write"), JStr("Edit"), JStr("MultiEdit")}

\* the file tracking of a tool record whose input is a dict
FileRule(inf, msg) ==
    IF ~Truthy(FilePath(msg)) THEN inf
    ELSE IF ToolName(msg) \in MutationTools
    THEN [inf EXCEPT !.files_modified = AppendNew(@, FilePath(msg))]
    ELSE IF ToolName(msg) = JStr("Read")
    THEN [inf EXCEPT !.files_read = AppendNew(@, FilePath(msg))]
    ELSE inf

\* command = tool_input.get("command", "")
Command(msg) ==
    IF msg.input.command.t # "absent" THEN msg.input.command ELSE JStr("")

(* cmd = command[:100] + "..." if len(command) > 100 else command, for a
   truthy command of any JSON type: len() of a number raises; a list or dict
   of more than 100 items cannot be joined with "...". *)
CommandCut(command) ==
    CASE command.t = "str" ->
           [v |-> JStr(Truncate(command.s, COMMAND_LIMIT)), exc |-> ""]
      [] command.t \in {"list", "dict"} ->
           IF command.n > COMMAND_LIMIT
           THEN [v |-> command, exc |-> "TypeError"]
           ELSE [v |-> command, exc |-> ""]
      [] OTHER -> [v |-> command, exc |-> "TypeError"]

\* the bash tracking of a tool record whose input is a dict
BashRule(inf, msg) ==
    IF ToolName(msg) = JStr("Bash") /\ Truthy(Command(msg))
    THEN IF CommandCut(Command(msg)).exc # ""
         THEN [info |-> inf, exc |-> CommandCut(Command(msg)).exc]
         ELSE [info |-> [inf EXCEPT !.commands_run =
                             Append(@, CommandCut(Command(msg)).v)],
               exc |-> ""]
    ELSE [info |-> inf, exc |-> ""]

\* the tool-use rule
ToolRule(inf, msg) ==
    IF IsToolUse(msg) /\ Truthy(ToolName(msg))
    THEN LET named == [inf EXCEPT !.tools_used = AppendNew(@, ToolName(msg))]
         IN  IF InputIsDict(msg)
             THEN BashRule(FileRule(named, msg), msg)
             ELSE [info |-> named, exc |-> ""]
    ELSE [info |-> inf, exc |-> ""]

\* msg_type == "tool_result" or "error" in str(msg).lower()
IsErrorScanned(msg) ==
    MsgType(msg) = JStr("tool_result") \/ Contains(StrLower(MsgStr(msg)), "error")

\* content = str(msg.get("content", msg.get("output", "")))
ErrorContent(msg) == PyStr(Get(msg, "content", Get(msg, "output", JStr(""))))

\* "error" in content.lower() or "failed" in content.lower()
LooksLikeError(content) ==
    Contains(StrLower(content), "error") \/ Contains(StrLower(content), "failed")

\* the error rule
ErrorRule(inf, msg) ==
    IF IsErrorScanned(msg) /\ LooksLikeError(ErrorContent(msg))
    THEN [inf EXCEPT !.errors_encountered =
              Append(@, Truncate(ErrorContent(msg), ERROR_LIMIT))]
    ELSE inf

(* One iteration of the for loop.  msg.get on a record that is not a JSON
   object raises AttributeError before any rule runs; a raise in the tool
   rule keeps what the prompt rule appended. *)
StepRecord(inf, msg) ==
    IF ~msg.obj THEN [info |-> inf, exc |-> "AttributeError"]
    ELSE LET t == ToolRule(PromptRule(inf, msg), msg)
         IN  IF t.exc # "" THEN t
             ELSE [info |-> ErrorRule(t.info, msg), exc |-> ""]

\* the for loop over msgs, stopped by the first raise
RECURSIVE LoopFrom(_, _, _)
LoopFrom(inf, msgs, k) ==
    IF k > Len(msgs) THEN [info |-> inf, exc |-> ""]
    ELSE LET r == StepRecord(inf, msgs[k])
         IN  IF r.exc # "" THEN r ELSE LoopFrom(r.info, msgs, k + 1)

ToSet(lst) == {lst[k] : k \in 1..Len(lst)}

\* the subsets of X with d elements
RECURSIVE KSubsets(_, _)
KSubsets(X, d) ==
    IF d <= 0 THEN {{}}
    ELSE UNION {{S \cup {x} : S \in KSubsets(X \ {x}, d - 1)} : x \in X}

(* list(set(lst))[:cap].  The order of a set's elements follows their hashes,
   which for strings change from one process to the next, so the slice keeps
   any cap of them in any order: the result is modelled by the set of its
   entries. *)
DedupCap(lst, cap) ==
    {ToSet(lst) \ D :
        D \in KSubsets(ToSet(lst), Cardinality(ToSet(lst)) - cap)}

\* Cap with the slice one too long
CapOneMore(lst, cap) == SubSeq(lst, 1, Min(cap + 1, Len(lst)))

\* lst[:cap]
Cap(lst, cap) == SubSeq(lst, 1, Min(cap, Len(lst)))

(* The post-pass: the outcomes of lines 112 to 115.  set() raises TypeError
   on a list or dict entry; files_modified is converted first. *)
PostPass(inf) ==
    IF \E x \in ToSet(inf.files_modified) \cup ToSet(inf.files_read) : ~Hashable(x)
    THEN {[info |-> inf, exc |-> "TypeError"]}
    ELSE {[info |-> [inf EXCEPT !.files_modified = fm, !.files_read = fr,
                                !.commands_run = Cap(@, COMMANDS_CAP),
                                !.errors_encountered = Cap(@, ERRORS_CAP)],
           exc |-> ""] :
            fm \in DedupCap(inf.files_modified, FILES_CAP),
            fr \in DedupCap(inf.files_read, FILES_CAP)}

\* the outcomes of extract_session_info(msgs): a returned info or a raise
extract_session_info(msgs) ==
    LET l == LoopFrom(InitInfo(msgs), msgs, 1)
    IN  IF l.exc # "" THEN {l} ELSE PostPass(l.info)

-----------------------------------------------------------------------------
(* Transcripts given to extract_session_info *)

Human(c) == [Obj EXCEPT !.type = JStr("human"), !.content = c]
User(c) == [Obj EXCEPT !.role = JStr("user"), !.content = c]
ToolUse(name, inp) == [Obj EXCEPT !.type = JStr("tool_use"), !.name = name, !.input = inp]
ToolKey(tool, inp) == [Obj EXCEPT !.tool = tool, !.input = inp]
ToolResult(c) == [Obj EXCEPT !.type = JStr("tool_result"), !.content = c]
PathInput(fp) == InputDict(fp, Absent, Absent)
CmdInput(c) == InputDict(Absent, Absent, c)

PromptRecords ==
    { Human(JStr("fix the bug")),
      User(JStr(Rep("x", PROMPT_LIMIT))),
      User(JStr(Rep("x", PROMPT_LIMIT + 1))),
      Human(JStr("")),
      Human(JStr(" \n")),
      [Obj EXCEPT !.type = JStr("human"), !.message = JStr("from message")],
      [Obj EXCEPT !.type = JStr("human"), !.content = JNull,
                  !.message = JStr("unused")],
      User(JList("text", 1)),
      [Obj EXCEPT !.type = JStr("human")],
      [Obj EXCEPT !.role = JStr("assistant"), !.content = JStr("done")],
      [Obj EXCEPT !.type = JStr("user"), !.content = JStr("typed user")] }

ToolRecords ==
    { ToolUse(JStr("Write"), PathInput(JStr("a.py"))),
      ToolKey(JStr("Edit"), InputDict(Absent, JStr("a.py"), Absent)),
      ToolUse(JStr("MultiEdit"), PathInput(JStr("b.py"))),
      ToolUse(JStr("Read"), PathInput(JStr("a.py"))),
      ToolUse(JStr("Bash"), CmdInput(JStr(Rep("c", COMMAND_LIMIT)))),
      ToolUse(JStr("Bash"), CmdInput(JStr(Rep("c", COMMAND_LIMIT + 1)))),
      ToolUse(JStr("Bash"), CmdInput(JNum(5))),
      ToolUse(JStr("Bash"), CmdInput(JList("ls", 1))),
      ToolUse(JStr("Write"), PathInput(JList("a.py", 1))),
      ToolUse(JStr("Read"), PathInput(JDict("a.py", 1))),
      ToolUse(JStr("Write"), InputStr("a.py")),
      ToolUse(JNum(7), NoInput),
      [Obj EXCEPT !.type = JStr("tool_use")],
      [Obj EXCEPT !.role = JStr("user"), !.content = JStr("run it"),
                  !.tool = JStr("Bash"), !.input = CmdInput(JNum(5))] }

ErrorRecords ==
    { ToolResult(JStr("Build failed: missing semicolon")),
      ToolResult(JStr("ok")),
      [Obj EXCEPT !.type = JStr("tool_result"), !.output = JStr("Error: boom")],
      [Obj EXCEPT !.error = JNull, !.content = JStr("FAILED hard")],
      ToolResult(JStr("error" \o Rep("e", ERROR_LIMIT - 5))),
      ToolResult(JStr("error" \o Rep("e", ERROR_LIMIT - 4))),
      ToolResult(JList("error", 1)),
      [Obj EXCEPT !.type = JStr("assistant"), !.content = JStr("An Error occurred")],
      Human(JStr("why did it say Error?")) }

NonObjectRecords == { NonObj(JNum(5)), NonObj(JStr("error")), NonObj(JNull) }

Records == PromptRecords \cup ToolRecords \cup ErrorRecords \cup NonObjectRecords

\* every transcript of at most n records of the alphabet
RECURSIVE SeqsUpTo(_, _)
SeqsUpTo(S, n) ==
    IF n = 0 THEN {<<>>}
    ELSE SeqsUpTo(S, n - 1)
         \cup {Append(q, x) : q \in {r \in SeqsUpTo(S, n - 1) : Len(r) = n - 1}, x \in S}

BulkKinds == {"write", "read", "bash", "error", "same"}

\* the k-th record of a bulk transcript
BulkRecord(kind, k) ==
    CASE kind = "write" -> ToolUse(JStr("Write"), PathInput(JStr("f" \o ToString(k))))
      [] kind = "read" -> ToolUse(JStr("Read"), PathInput(JStr("f" \o ToString(k))))
      [] kind = "bash" -> ToolUse(JStr("Bash"), CmdInput(JStr("make " \o ToString(k))))
      [] kind = "error" -> ToolResult(JStr("error " \o ToString(k)))
      [] OTHER -> ToolUse(JStr("Edit"), PathInput(JStr("f0")))

BulkTranscripts ==
    {[k \in 1..n |-> BulkRecord(kind, k)] : kind \in BulkKinds, n \in 1..MaxBulk}

\* three prompts and two edits of one file, in every order of the five
Shaped ==
    {q \in [1..5 -> {Human(JStr("fix the bug")),
                     ToolUse(JStr("Write"), PathInput(JStr("a.py")))}] :
        Cardinality({k \in 1..5 : q[k].type = JStr("human")}) = 3}

Transcripts == SeqsUpTo(Records, MaxLen) \cup BulkTranscripts \cup Shaped

-----------------------------------------------------------------------------
(* SpecExtract: extract_session_info on one transcript *)

NoProc == [p \in {} |-> 0]

InitExtract ==
    /\ messages \in Transcripts
    /\ idx = 0
    /\ info = InitInfo(messages)
    /\ epc = "loop"
    /\ proc = NoProc
    /\ fs = NoProc
    /\ started = 0

\* for msg in messages: one iteration
ProcessRecord ==
    /\ epc = "loop"
    /\ idx < Len(messages)
    /\ LET r == StepRecord(info, messages[idx + 1])
       IN  /\ info' = r.info
           /\ epc' = IF r.exc # "" THEN "raised" ELSE "loop"
    /\ idx' = idx + 1
    /\ UNCHANGED <<messages, mvars>>

\* the loop is over: deduplicate, limit and return
Finish ==
    /\ epc = "loop"
    /\ idx = Len(messages)
    /\ \E r \in PostPass(info) :
          /\ info' = r.info
          /\ epc' = IF r.exc # "" THEN "raised" ELSE "returned"
    /\ UNCHANGED <<messages, idx, mvars>>

NextExtract == ProcessRecord \/ Finish

SpecExtract == InitExtract /\ [][NextExtract]_vars

-----------------------------------------------------------------------------
(* generate_summary *)

Max(a, b) == IF a > b THEN a ELSE b

\* s.replace("\n", " ")
RECURSIVE ReplaceNewlines(_)
ReplaceNewlines(s) ==
    IF Len(s) = 0 THEN ""
    ELSE IF Len(s) = 1 THEN (IF s = "\n" THEN " " ELSE s)
    ELSE ReplaceNewlines(SubSeq(s, 1, Len(s) \div 2))
         \o ReplaceNewlines(SubSeq(s, (Len(s) \div 2) + 1, Len(s)))

\* s.strip()
Strip(s) ==
    LET keep == {k \in 1..Len(s) : SubSeq(s, k, k) \notin Whitespace}
    IN  IF keep = {} THEN ""
        ELSE SubSeq(s, CHOOSE k \in keep : \A j \in keep : k <= j,
                       CHOOSE k \in keep : \A j \in keep : k >= j)

\* ', '.join(names), for names that are all strings
RECURSIVE JoinNames(_, _)
JoinNames(names, k) ==
    IF k > Len(names) THEN ""
    ELSE names[k].s \o (IF k < Len(names) THEN ", " ELSE "") \o JoinNames(names, k + 1)

\* the report and the info of an invocation that made none
EmptyInfo ==
    [user_prompts |-> <<>>, tools_used |-> <<>>, files_modified |-> {},
     files_created |-> <<>>, files_read |-> {}, commands_run |-> <<>>,
     errors_encountered |-> <<>>, total_messages |-> 0]
NoSummary ==
    [generated |-> 0, requested |-> <<>>, more_prompts |-> 0, files |-> {},
     more_files |-> 0, tools |-> "", commands |-> <<>>, more_commands |-> 0,
     errors |-> <<>>, total_messages |-> 0, n_modified |-> 0, n_read |-> 0,
     n_commands |-> 0]

(* The outcomes of generate_summary(inf) called at time now: the report, one
   field per section, or the TypeError that ', '.join raises on a tool name
   that is not a string.  files_modified[:10] keeps any 10 of a set. *)
generate_summary(inf, now) ==
    IF \E k \in 1..Len(inf.tools_used) : inf.tools_used[k].t # "str"
    THEN {[summary |-> NoSummary, exc |-> "TypeError"]}
    ELSE {[summary |->
             [generated |-> now,
              requested |-> [k \in 1..Min(SHOWN_PROMPTS, Len(inf.user_prompts)) |->
                                Strip(ReplaceNewlines(inf.user_prompts[k]))],
              more_prompts |-> Max(0, Len(inf.user_prompts) - SHOWN_PROMPTS),
              files |-> inf.files_modified \ hidden,
              more_files |-> Max(0, Cardinality(inf.files_modified) - SHOWN_FILES),
              tools |-> JoinNames(inf.tools_used, 1),
              commands |-> [k \in 1..Min(SHOWN_COMMANDS, Len(inf.commands_run)) |->
                                PyStr(inf.commands_run[k])],
              more_commands |-> Max(0, Len(inf.commands_run) - SHOWN_COMMANDS),
              errors |-> [k \in 1..Min(SHOWN_ERRORS, Len(inf.errors_encountered)) |->
                              Prefix(inf.errors_encountered[k], SHOWN_ERROR_LEN)],
              total_messages |-> inf.total_messages,
              n_modified |-> Cardinality(inf.files_modified),
              n_read |-> Cardinality(inf.files_read),
              n_commands |-> Len(inf.commands_run)],
           exc |-> ""] :
            hidden \in KSubsets(inf.files_modified,
                                Cardinality(inf.files_modified) - SHOWN_FILES)}

-----------------------------------------------------------------------------
(* The files main() reads *)

Line(kind, rec) == [kind |-> kind, rec |-> rec]
Json(rec) == Line("json", rec)
BlankLine == Line("blank", Obj)
MalformedLine == Line("malformed", Obj)

\* the transcript files on disk, by path
TranscriptPaths == {"/t/blank.jsonl", "/t/ok.jsonl", "/t/scalar.jsonl", "/t/tool7.jsonl"}

TranscriptLines(path) ==
    CASE path = "/t/blank.jsonl" -> <<MalformedLine, BlankLine>>
      [] path = "/t/ok.jsonl" ->
           <<Json(Human(JStr("fix the\nbug "))), BlankLine, MalformedLine,
             Json(ToolUse(JStr("Write"), PathInput(JStr("a.py")))),
             Json(ToolUse(JStr("Bash"), CmdInput(JStr("make test")))),
             Json(ToolResult(JStr("Build failed: missing semicolon")))>>
      [] path = "/t/scalar.jsonl" ->
           <<Json(Human(JStr("fix the bug"))), Json(NonObj(JNum(5)))>>
      [] path = "/t/tool7.jsonl" -> <<Json(ToolUse(JNum(7), NoInput))>>
      [] OTHER -> <<>>

\* os.path.exists(path)
PathExists(path) == path \in TranscriptPaths

RECURSIVE DecodeLines(_, _)
DecodeLines(lines, k) ==
    IF k > Len(lines) THEN <<>>
    ELSE (IF lines[k].kind = "json" THEN <<lines[k].rec>> ELSE <<>>)
         \o DecodeLines(lines, k + 1)

(* parse_transcript: one record per line that is not blank and parses; no
   record at all when the file cannot be opened. *)
parse_transcript(path, readable) ==
    IF readable THEN DecodeLines(TranscriptLines(path), 1) ELSE <<>>

\* the values of the envelope's transcript_path key (Absent: no such key)
EnvelopePaths == {Absent, JStr("/t/missing.jsonl")} \cup {JStr(p) : p \in TranscriptPaths}

\* the envelope of invocation p
Envelope(p, path) == [id |-> p, session_id |-> JStr("s1"), transcript_path |-> path]
NoEnvelope == [id |-> 0, session_id |-> Absent, transcript_path |-> Absent]

\* what json.load(sys.stdin) meets
Stdins(p) ==
    {[kind |-> "malformed", env |-> NoEnvelope], [kind |-> "nonobject", env |-> NoEnvelope]}
    \cup {[kind |-> "object", env |-> Envelope(p, path)] : path \in EnvelopePaths}

\* ensure_session_log_dir(session_id): the session's directory
ensure_session_log_dir(session_id) == "logs/" \o session_id

\* a file of the log directory: st is "absent", "ok" or "corrupt"
NoFile(empty) == [st |-> "absent", data |-> empty]
NoChat == NoFile(<<>>)
NoJson == [generated_at |-> 0, info |-> EmptyInfo]


-----------------------------------------------------------------------------
(* main() *)

Invocations == 1..MaxInv

\* the one session directory the invocations share
LogDir == ensure_session_log_dir("s1")

\* the file operations that can fail
AllFaults == {"logdir", "read_log", "open_log", "dump_log",
              "read_transcript", "open_chat", "dump_chat", "open_txt",
              "write_txt", "open_json", "dump_json", "print"}

\* the locals of an invocation that has not started
IdleProc ==
    [pc |-> "idle", chat |-> FALSE, summary |-> FALSE, input_data |-> NoEnvelope,
     seen |-> <<>>, log_data |-> <<>>, messages |-> <<>>, info |-> EmptyInfo,
     report |-> NoSummary, exit_code |-> -1, exc |-> "", failed_at |-> "",
     stderr |-> FALSE, stdout |-> FALSE]

Init ==
    /\ proc = [p \in Invocations |-> IdleProc]
    /\ fs = [stop |-> NoFile(<<>>), chat |-> NoChat, txt |-> NoFile(NoSummary),
             json |-> NoFile(NoJson)]
    /\ started = 0
    /\ messages = <<>>
    /\ idx = 0
    /\ info = InitInfo(<<>>)
    /\ epc = "idle"

(* datetime.now() at the k-th call of invocation p: no two calls give the
   same time. *)
Now(p, k) == 2 * (p - 1) + k

\* the status of a main() that lets an unexpected exception fail the hook
ExitStatusPropagated(exc) == IF exc = "JSONDecodeError" THEN 0 ELSE 1

\* the status the except clauses of main() exit with
ExitStatus(exc) == 0

\* sys.exit(0) at the end of the try block
Exit(pr) == [pr EXCEPT !.pc = "exited", !.exit_code = 0]

(* An exception raised at step `at`: except json.JSONDecodeError exits
   silently, except Exception prints a diagnostic to stderr first. *)
Raise(pr, exc, at) ==
    [pr EXCEPT !.pc = "exited", !.exit_code = ExitStatus(exc), !.exc = exc,
               !.failed_at = at, !.stderr = (exc # "JSONDecodeError")]

\* the order of a main() that goes to the transcript before it archives
ArchiveSkipped(at) ==
    CASE at = "stdin" -> "logdir"
      [] at = "logdir" -> "transcript"
      [] at = "read_log" -> "open_log"
      [] at = "open_log" -> "dump_log"
      [] at = "dump_log" -> "transcript"
      [] at = "extract" -> "render"
      [] at = "render" -> "save_txt"
      [] at = "save_txt" -> "save_json"
      [] at = "save_json" -> "print"
      [] OTHER -> "exited"

(* The statement that follows step `at` in main(), where no condition
   decides it. *)
Following(at) ==
    CASE at = "stdin" -> "logdir"
      [] at = "logdir" -> "read_log"
      [] at = "read_log" -> "open_log"
      [] at = "open_log" -> "dump_log"
      [] at = "dump_log" -> "transcript"
      [] at = "extract" -> "render"
      [] at = "render" -> "save_txt"
      [] at = "save_txt" -> "save_json"
      [] at = "save_json" -> "print"
      [] OTHER -> "exited"

\* session_id = input_data.get("session_id", "unknown")
SessionId(env) == IF env.session_id.t = "absent" THEN "unknown" ELSE env.session_id.s

\* a transcript_path that falls back on a transcript when the envelope has none
TranscriptPathOrDefault(env) ==
    IF env.transcript_path.t = "absent" THEN JStr("/t/ok.jsonl") ELSE env.transcript_path

\* transcript_path = input_data.get("transcript_path", "")
TranscriptPath(env) ==
    IF env.transcript_path.t = "absent" THEN JStr("") ELSE env.transcript_path

\* transcript_path and os.path.exists(transcript_path)
HasTranscript(env) ==
    Truthy(TranscriptPath(env)) /\ PathExists(TranscriptPath(env).s)

\* the outcomes of a step: "ok" and the faults of `mine` that F allows
Outcomes(mine, F) == {"ok"} \cup (mine \cap F)

\* no invocation is between its start and its exit
Quiet == \A q \in Invocations : proc[q].pc \in {"idle", "exited"}

(* What stays of an invocation that has exited once the next one starts: the
   envelope it was given and its exit status. *)
Reaped(pr) ==
    IF pr.pc = "exited"
    THEN [IdleProc EXCEPT !.pc = "exited", !.input_data = pr.input_data,
                          !.exit_code = pr.exit_code]
    ELSE pr

\* the flags and standard inputs invocation p may be given
AnyInput(p) ==
    {[chat |-> c, summary |-> m, stdin |-> i] :
        c \in BOOLEAN, m \in BOOLEAN, i \in Stdins(p)}

\* parse_args() and json.load(sys.stdin), up to transcript_path = ...
Start(p, inputs) ==
    /\ p = started + 1
    /\ proc[p].pc = "idle"
    /\ \E in \in inputs :
          LET args == [proc[p] EXCEPT !.chat = in.chat, !.summary = in.summary]
              begun ==
                  CASE in.stdin.kind = "malformed" ->
                         Raise(args, "JSONDecodeError", "stdin")
                    [] in.stdin.kind = "nonobject" ->
                         Raise(args, "AttributeError", "stdin")
                    [] OTHER -> [args EXCEPT !.pc = Following("stdin"),
                                             !.input_data = in.stdin.env]
          IN  proc' = [q \in Invocations |-> IF q = p THEN begun ELSE Reaped(proc[q])]
    /\ started' = p
    /\ UNCHANGED <<fs, evars>>

\* log_dir = ensure_session_log_dir(session_id)
EnsureLogDir(p, F) ==
    /\ proc[p].pc = "logdir"
    /\ \E o \in Outcomes({"logdir"}, F) :
          proc' = [proc EXCEPT ![p] =
              IF o = "ok" /\ ensure_session_log_dir(SessionId(@.input_data)) = LogDir
              THEN [@ EXCEPT !.pc = Following("logdir")]
              ELSE Raise(@, "OSError", "logdir")]
    /\ UNCHANGED <<fs, started, evars>>

(* What json.load gives for stop.json: a missing, empty or undecodable file
   gives []. *)
LoadLog(file) == IF file.st = "ok" THEN file.data ELSE <<>>

\* if log_path.exists(): ... log_data = json.load(f) ... else: log_data = []
ReadLog(p, F) ==
    /\ proc[p].pc = "read_log"
    /\ \E o \in Outcomes(IF fs.stop.st = "absent" THEN {} ELSE {"read_log"}, F) :
          proc' = [proc EXCEPT ![p] =
              IF o = "ok"
              THEN [@ EXCEPT !.pc = Following("read_log"), !.seen = LoadLog(fs.stop),
                             !.log_data = LoadLog(fs.stop)]
              ELSE Raise(@, "OSError", "read_log")]
    /\ UNCHANGED <<fs, started, evars>>

\* a log that keeps only the newest envelope
ReplaceLog(log_data, input_data) == <<input_data>>

\* a log the envelope is never added to
DropEnvelope(log_data, input_data) == log_data

\* log_data.append(input_data)
AppendEnvelope(log_data, input_data) == Append(log_data, input_data)

\* log_data.append(input_data); open(log_path, 'w'): the file is emptied
OpenLog(p, F) ==
    /\ proc[p].pc = "open_log"
    /\ \E o \in Outcomes({"open_log"}, F) :
          /\ proc' = [proc EXCEPT ![p] =
                 LET a == [@ EXCEPT !.log_data = AppendEnvelope(@, proc[p].input_data)]
                 IN  IF o = "ok" THEN [a EXCEPT !.pc = Following("open_log")]
                     ELSE Raise(a, "OSError", "open_log")]
          /\ fs' = IF o = "ok"
                   THEN [fs EXCEPT !.stop = [st |-> "corrupt", data |-> <<>>]]
                   ELSE fs
    /\ UNCHANGED <<started, evars>>

\* json.dump(log_data, f, indent=2) and the close of the file
DumpLog(p, F) ==
    /\ proc[p].pc = "dump_log"
    /\ \E o \in Outcomes({"dump_log"}, F) :
          /\ proc' = [proc EXCEPT ![p] =
                 IF o = "ok" THEN [@ EXCEPT !.pc = Following("dump_log")]
                 ELSE Raise(@, "OSError", "dump_log")]
          /\ fs' = IF o = "ok"
                   THEN [fs EXCEPT !.stop = [st |-> "ok", data |-> proc[p].log_data]]
                   ELSE [fs EXCEPT !.stop = [st |-> "corrupt", data |-> <<>>]]
    /\ UNCHANGED <<started, evars>>

\* the summary branch without its test of messages
AfterChatUnguarded(pr) ==
    IF pr.summary THEN [pr EXCEPT !.pc = "extract"] ELSE Exit(pr)

\* where main() goes once messages is known and the chat step is over
AfterChat(pr) ==
    IF pr.summary /\ pr.messages # <<>> THEN [pr EXCEPT !.pc = "extract"] ELSE Exit(pr)

\* where main() goes once messages is known
AfterParse(pr) ==
    IF pr.chat /\ pr.messages # <<>> THEN [pr EXCEPT !.pc = "chat"] ELSE AfterChat(pr)

\* if transcript_path and os.path.exists(...): messages = parse_transcript(...)
ReadTranscript(p, F) ==
    /\ proc[p].pc = "transcript"
    /\ \E o \in Outcomes(IF HasTranscript(proc[p].input_data)
                         THEN {"read_transcript"} ELSE {}, F) :
          proc' = [proc EXCEPT ![p] =
              IF HasTranscript(@.input_data)
              THEN AfterParse([@ EXCEPT !.messages =
                       parse_transcript(TranscriptPath(proc[p].input_data).s, o = "ok")])
              ELSE Exit(@)]
    /\ UNCHANGED <<fs, started, evars>>

\* with open(chat_file, 'w') as f: json.dump(messages, f, indent=2)
WriteChat(p, F) ==
    /\ proc[p].pc = "chat"
    /\ \E o \in Outcomes({"open_chat", "dump_chat"}, F) :
          /\ proc' = [proc EXCEPT ![p] =
                 IF o = "ok" THEN AfterChat(@) ELSE Raise(@, "OSError", "chat")]
          /\ fs' = CASE o = "ok" ->
                          [fs EXCEPT !.chat = [st |-> "ok", data |-> proc[p].messages]]
                     [] o = "dump_chat" ->
                          [fs EXCEPT !.chat = [st |-> "corrupt", data |-> <<>>]]
                     [] OTHER -> fs
    /\ UNCHANGED <<started, evars>>

\* info = extract_session_info(messages)
Extract(p) ==
    /\ proc[p].pc = "extract"
    /\ \E r \in extract_session_info(proc[p].messages) :
          proc' = [proc EXCEPT ![p] =
              IF r.exc # "" THEN Raise(@, r.exc, "extract")
              ELSE [@ EXCEPT !.pc = Following("extract"), !.info = r.info]]
    /\ UNCHANGED <<fs, started, evars>>

\* summary = generate_summary(info)
Render(p) ==
    /\ proc[p].pc = "render"
    /\ \E r \in generate_summary(proc[p].info, Now(p, 1)) :
          proc' = [proc EXCEPT ![p] =
              IF r.exc # "" THEN Raise(@, r.exc, "render")
              ELSE [@ EXCEPT !.pc = Following("render"), !.report = r.summary]]
    /\ UNCHANGED <<fs, started, evars>>

\* save_summary: with open(summary_file, 'w') as f: f.write(summary)
SaveTxt(p, F) ==
    /\ proc[p].pc = "save_txt"
    /\ \E o \in Outcomes({"open_txt", "write_txt"}, F) :
          /\ proc' = [proc EXCEPT ![p] =
                 IF o = "ok" THEN [@ EXCEPT !.pc = Following("save_txt")]
                 ELSE Raise(@, "OSError", "save_txt")]
          /\ fs' = CASE o = "ok" ->
                          [fs EXCEPT !.txt = [st |-> "ok", data |-> proc[p].report]]
                     [] o = "write_txt" ->
                          [fs EXCEPT !.txt = [st |-> "corrupt", data |-> NoSummary]]
                     [] OTHER -> fs
    /\ UNCHANGED <<started, evars>>

\* save_summary: with open(data_file, 'w') as f: json.dump({...}, f, indent=2)
SaveJson(p, F) ==
    /\ proc[p].pc = "save_json"
    /\ \E o \in Outcomes({"open_json", "dump_json"}, F) :
          /\ proc' = [proc EXCEPT ![p] =
                 IF o = "ok" THEN [@ EXCEPT !.pc = Following("save_json")]
                 ELSE Raise(@, "OSError", "save_json")]
          /\ fs' = CASE o = "ok" ->
                          [fs EXCEPT !.json =
                              [st |-> "ok",
                               data |-> [generated_at |-> Now(p, 2), info |-> proc[p].info]]]
                     [] o = "dump_json" ->
                          [fs EXCEPT !.json = [st |-> "corrupt", data |-> NoJson]]
                     [] OTHER -> fs
    /\ UNCHANGED <<started, evars>>

\* print("\n" + summary), then sys.exit(0)
PrintSummary(p, F) ==
    /\ proc[p].pc = "print"
    /\ \E o \in Outcomes({"print"}, F) :
          proc' = [proc EXCEPT ![p] =
              IF o = "ok" THEN Exit([@ EXCEPT !.stdout = TRUE])
              ELSE Raise(@, "OSError", "print")]
    /\ UNCHANGED <<fs, started, evars>>

\* one step of invocation p after its start
Step(p, F) ==
    \/ EnsureLogDir(p, F)
    \/ ReadLog(p, F)
    \/ OpenLog(p, F)
    \/ DumpLog(p, F)
    \/ ReadTranscript(p, F)
    \/ WriteChat(p, F)
    \/ Extract(p)
    \/ Render(p)
    \/ SaveTxt(p, F)
    \/ SaveJson(p, F)
    \/ PrintSummary(p, F)

\* invocations one after the other, every file operation able to fail
StartAlone(p) == Quiet /\ Start(p, AnyInput(p))

Next == \E p \in Invocations : StartAlone(p) \/ Step(p, AllFaults)

Spec == Init /\ [][Next]_vars

\* the inputs whose standard input is a JSON object
ParsedInput(p) == {in \in AnyInput(p) : in.stdin.kind = "object"}

StartParsed(p) == Quiet /\ Start(p, ParsedInput(p))

\* invocations one after the other, envelopes that parse, files that do not fail
NextSeq == \E p \in Invocations : StartParsed(p) \/ Step(p, {})

SpecSeq == Init /\ [][NextSeq]_vars

\* invocations that may overlap, on files that do not fail
(* The inputs of the invocations that overlap: each is given --chat and
   --summary and an envelope naming the transcript that has records. *)
OverlapInput(p) ==
    {[chat |-> TRUE, summary |-> TRUE,
      stdin |-> [kind |-> "object", env |-> Envelope(p, JStr("/t/ok.jsonl"))]]}

StartOverlapping(p) == Start(p, OverlapInput(p))

NextConc == \E p \in Invocations : StartOverlapping(p) \/ Step(p, {})

SpecConc == Init /\ [][NextConc]_vars

-----------------------------------------------------------------------------
(* Properties of extract_session_info, checked under SpecExtract *)

\* C1: a returned SessionInfo has at most 20 files_modified, 20 files_read,
\* 15 commands_run and 10 errors_encountered, whatever the transcript.
C1_CapsHold ==
    epc = "returned" =>
        /\ Cardinality(info.files_modified) <= 20
        /\ Cardinality(info.files_read) <= 20
        /\ Len(info.commands_run) <= 15
        /\ Len(info.errors_encountered) <= 10

\* a transcript that names more files than the cap was cut to the cap
C1_Witness ==
    /\ epc = "returned"
    /\ Cardinality({messages[k].input.file_path : k \in 1..Len(messages)}) > 20
    /\ Cardinality(info.files_modified) = 20

\* C3: extract_session_info raises for no sequence of decoded records,
\* records that are not JSON objects and fields of unexpected type included.
C3_NeverRaises == epc # "raised"

\* what C9 says of one stored string and the string it was taken from
StoredAsClaimed(src, stored, limit) ==
    /\ Len(stored) <= limit + 3
    /\ Len(src) <= limit => stored = src
    /\ Len(src) > limit =>
          /\ Len(stored) = limit + 3
          /\ \A k \in 1..limit : SubSeq(stored, k, k) = SubSeq(src, k, k)
          /\ \A k \in (limit + 1)..(limit + 3) : SubSeq(stored, k, k) = "."

C9_WithinLimits ==
    /\ \A k \in 1..Len(info.user_prompts) : Len(info.user_prompts[k]) <= 200 + 3
    /\ \A k \in 1..Len(info.commands_run) :
          info.commands_run[k].t = "str" => Len(info.commands_run[k].s) <= 100 + 3
    /\ \A k \in 1..Len(info.errors_encountered) :
          Len(info.errors_encountered[k]) <= 150 + 3

C9_StoredFromSource ==
    idx' = idx + 1 =>
        LET msg == messages[idx']
        IN  /\ Len(info'.user_prompts) > Len(info.user_prompts) =>
                  StoredAsClaimed(PromptContent(msg).s,
                                  info'.user_prompts[Len(info'.user_prompts)], 200)
            /\ (Len(info'.commands_run) > Len(info.commands_run)
                /\ Command(msg).t = "str") =>
                  StoredAsClaimed(Command(msg).s,
                                  info'.commands_run[Len(info'.commands_run)].s, 100)
            /\ Len(info'.errors_encountered) > Len(info.errors_encountered) =>
                  StoredAsClaimed(ErrorContent(msg),
                                  info'.errors_encountered[Len(info'.errors_encountered)],
                                  150)

\* C9: every stored prompt, command and error string is at most its limit
\* (200, 100, 150) plus 3 long; a source string at or under the limit is
\* stored verbatim, a longer one as its first limit characters and "...".
C9_Truncation == []C9_WithinLimits /\ [][C9_StoredFromSource]_vars

\* a prompt exactly at the limit was stored verbatim beside a cut one
C9_Witness ==
    /\ Len(info.user_prompts) = 2
    /\ Len(info.user_prompts[1]) = 200
    /\ info.user_prompts[1] = PromptContent(messages[1]).s
    /\ Len(PromptContent(messages[2]).s) = 201
    /\ Len(info.user_prompts[2]) = 203

\* the processed records C10 as written expects a prompt from
ClaimedPromptRecords ==
    {k \in 1..idx : /\ IsPromptSource(messages[k])
                    /\ Has(messages[k], "content") \/ Has(messages[k], "message")
                    /\ PromptContent(messages[k]).t = "str"}

\* the processed records whose content is a string that is not blank
NonBlankPromptRecords ==
    {k \in ClaimedPromptRecords :
        \E j \in 1..Len(PromptContent(messages[k]).s) :
            SubSeq(PromptContent(messages[k]).s, j, j) \notin {" ", "\t", "\n", "\r"}}

\* the paths the processed mutation-tool records name
MutatedPaths ==
    {FilePath(messages[k]) :
        k \in {j \in 1..idx : /\ IsToolUse(messages[j])
                              /\ ToolName(messages[j]) \in MutationTools
                              /\ InputIsDict(messages[j])
                              /\ Truthy(FilePath(messages[j]))}}

\* user_prompts holds one entry per record of K, in input order
PromptsAre(K) ==
    /\ Len(info.user_prompts) = Cardinality(K)
    /\ \A k \in K :
          LET j == Cardinality({i \in K : i <= k})
          IN  j <= Len(info.user_prompts)
              /\ Prefix(info.user_prompts[j], 200) = Prefix(PromptContent(messages[k]).s, 200)

\* C10 as written: one user_prompts entry, in input order, for each
\* prompt-source record whose content is string-typed, none for any other;
\* mutation-tool records naming one path count once in files_modified.
C10_AsWritten ==
    /\ PromptsAre(ClaimedPromptRecords)
    /\ epc = "returned" => Cardinality(info.files_modified) = Min(20, Cardinality(MutatedPaths))

\* C10 amended: one user_prompts entry, in input order, for each processed
\* prompt-source record whose content is a string with a character that is
\* not whitespace, none for any other; mutation-tool records naming one path
\* count once in files_modified.
C10_NonBlankPrompts ==
    /\ PromptsAre(NonBlankPromptRecords)
    /\ epc = "returned" => Cardinality(info.files_modified) = Min(20, Cardinality(MutatedPaths))

\* three prompts and two writes of one path gave 3 prompts and 1 file
C10_Witness ==
    /\ epc = "returned"
    /\ Cardinality({k \in 1..Len(messages) : IsPromptSource(messages[k])}) = 3
    /\ Cardinality({k \in 1..Len(messages) : ToolName(messages[k]) \in MutationTools}) = 2
    /\ Len(info.user_prompts) = 3
    /\ Cardinality(info.files_modified) = 1

-----------------------------------------------------------------------------
(* Properties of main(), checked under Spec, SpecSeq and SpecConc *)

\* the invocation started last (invocation 1, still idle, before any start)
Cur == proc[IF started = 0 THEN 1 ELSE started]

\* the envelopes given to the first k invocations, in order
Given(k) == [i \in 1..k |-> proc[i].input_data]

\* invocation p is past its write of stop.json
Dumped(p) == proc[p].pc \notin {"idle", "logdir", "read_log", "open_log", "dump_log"}

\* stop.json is the archive invocation pr read, with pr's envelope at its end
ArchiveHolds(pr) ==
    fs.stop = [st |-> "ok", data |-> Append(pr.seen, pr.input_data)]

\* both summary files are the ones invocation p wrote
WroteBoth(p) ==
    /\ fs.txt = [st |-> "ok", data |-> proc[p].report]
    /\ proc[p].report.generated = Now(p, 1)
    /\ fs.json = [st |-> "ok",
                  data |-> [generated_at |-> Now(p, 2), info |-> proc[p].info]]

\* the place of a step in the text of main()
Rank(pc) ==
    CASE pc = "idle" -> 0
      [] pc = "logdir" -> 1
      [] pc = "read_log" -> 2
      [] pc = "open_log" -> 3
      [] pc = "dump_log" -> 4
      [] pc = "transcript" -> 5
      [] pc = "chat" -> 6
      [] pc = "extract" -> 7
      [] pc = "render" -> 8
      [] pc = "save_txt" -> 9
      [] pc = "save_json" -> 10
      [] pc = "print" -> 11
      [] pc = "exited" -> 12

\* invocation p, not yet exited, has a statement it can run
CanStep(p) ==
    CASE proc[p].pc = "extract" -> extract_session_info(proc[p].messages) # {}
      [] proc[p].pc = "render" -> generate_summary(proc[p].info, Now(p, 1)) # {}
      [] OTHER -> proc[p].pc \in {"logdir", "read_log", "open_log", "dump_log",
                                  "transcript", "chat", "save_txt", "save_json", "print"}

C2_ExitCodes ==
    \A p \in Invocations :
        /\ proc[p].pc = "exited" => proc[p].exit_code = 0
        /\ proc[p].pc \notin {"idle", "exited"} => proc[p].exit_code = -1 /\ CanStep(p)

C2_Advances ==
    /\ \E p \in Invocations : Rank(proc'[p].pc) > Rank(proc[p].pc)
    /\ \A p \in Invocations : Rank(proc'[p].pc) >= Rank(proc[p].pc)

C4_ArchiveGrows ==
    /\ Cur.pc \in {"idle", "logdir", "read_log", "open_log"} =>
            fs.stop.data = Given(IF started = 0 THEN 0 ELSE started - 1)
    /\ Cur.pc \notin {"idle", "logdir", "read_log", "open_log", "dump_log"} =>
            fs.stop = [st |-> "ok", data |-> Given(started)]

\* two invocations have ended and stop.json holds their two envelopes
C4_Witness ==
    /\ Quiet
    /\ started = 2
    /\ fs.stop.st = "ok"
    /\ fs.stop.data = <<proc[1].input_data, proc[2].input_data>>
    /\ proc[1].input_data # proc[2].input_data

\* invocation p still has the locals of its run, and is past its write
Holds(p) == Dumped(p) /\ proc[p].summary

\* C5: invocations that overlap are not coordinated.  Once two invocations
\* that read the same stop.json have both written it back, stop.json does
\* not hold both envelopes; stop.json is what the invocation that wrote last
\* read, with its own envelope added.
C5_LostUpdate ==
    /\ \A p, q \in Invocations :
          (p # q /\ Holds(p) /\ Holds(q) /\ proc[p].seen = proc[q].seen
           /\ fs.stop.st = "ok") =>
              ~ (/\ \E k \in 1..Len(fs.stop.data) : fs.stop.data[k] = proc[p].input_data
                 /\ \E k \in 1..Len(fs.stop.data) : fs.stop.data[k] = proc[q].input_data)
    /\ fs.stop.st = "ok" =>
          /\ fs.stop.data # <<>>
          /\ \E w \in Invocations :
                /\ Dumped(w)
                /\ fs.stop.data[Len(fs.stop.data)] = proc[w].input_data
                /\ Holds(w) => ArchiveHolds(proc[w])

\* both invocations have exited, stop.json holds one envelope of the two and
\* the two summary files are from different invocations
C5_Witness ==
    \E p, q \in Invocations :
        /\ p # q
        /\ proc[p].pc = "exited" /\ proc[q].pc = "exited"
        /\ Holds(p) /\ Holds(q)
        /\ proc[p].seen = proc[q].seen
        /\ fs.stop.st = "ok" /\ Len(fs.stop.data) = Len(proc[p].seen) + 1
        /\ fs.txt.st = "ok" /\ fs.txt.data.generated = Now(p, 1)
        /\ fs.json.st = "ok" /\ fs.json.data.generated_at = Now(q, 2)

\* pr was given --summary and an envelope whose transcript_path is missing
\* or names a file that does not exist
C6_Case(pr) ==
    /\ pr.summary
    /\ pr.pc # "idle" /\ pr.failed_at # "stdin"
    /\ \/ pr.input_data.transcript_path.t = "absent"
       \/ ~PathExists(pr.input_data.transcript_path.s)

C6_Outcome ==
    (C6_Case(Cur) /\ Cur.pc = "exited") =>
        /\ Cur.exit_code = 0
        /\ ~Cur.stdout
        /\ Cur.failed_at = "" => ArchiveHolds(Cur)

C6_NothingWritten ==
    C6_Case(proc'[IF started' = 0 THEN 1 ELSE started']) =>
        /\ fs'.chat = fs.chat
        /\ fs'.txt = fs.txt
        /\ fs'.json = fs.json

\* C6: an invocation given --summary and an envelope that names a transcript
\* that does not exist, or names none, exits 0, has added its envelope at the
\* end of stop.json when no archival step failed, and at no step changes
\* chat.json, session_summary.txt or session_summary.json, with or without
\* --chat.
C6_MissingTranscript == []C6_Outcome /\ [][C6_NothingWritten]_vars

\* the second invocation named a missing file: it has exited, its envelope
\* is archived and the summary of the first invocation is still there
C6_Witness ==
    /\ started = 2
    /\ C6_Case(Cur)
    /\ Cur.chat
    /\ Cur.input_data.transcript_path = JStr("/t/missing.jsonl")
    /\ Cur.pc = "exited" /\ Cur.failed_at = ""
    /\ ArchiveHolds(Cur) /\ Len(fs.stop.data) = 2
    /\ fs.txt.st = "ok" /\ fs.json.st = "ok" /\ fs.chat.st = "ok"

\* a step that changes chat.json or a summary file is taken with stop.json
\* written, this invocation's envelope at its end, and leaves stop.json alone
C7_ArchivedFirst ==
    (fs'.chat # fs.chat \/ fs'.txt # fs.txt \/ fs'.json # fs.json) =>
        /\ ArchiveHolds(Cur)
        /\ fs'.stop = fs.stop

C7_FailureKeepsArchive ==
    (Cur.pc = "exited"
     /\ Cur.failed_at \in {"chat", "extract", "render", "save_txt", "save_json", "print"}) =>
        /\ ArchiveHolds(Cur)
        /\ ~Cur.stdout

C7_PrintedAfterWrites ==
    (Cur.pc = "print" \/ Cur.stdout) => WroteBoth(IF started = 0 THEN 1 ELSE started)

\* C7: within an invocation stop.json is written, with the invocation's
\* envelope at its end, before any write of chat.json, session_summary.txt
\* or session_summary.json; a failure of the chat write, of the extraction,
\* of the rendering, of a summary write or of the print leaves stop.json so;
\* the report is printed only with both summary files written.
C7_Ordering ==
    /\ [](C7_FailureKeepsArchive /\ C7_PrintedAfterWrites)
    /\ [][C7_ArchivedFirst]_vars

\* the write of session_summary.json failed: the text summary is this
\* invocation's, stop.json holds its envelope and nothing was printed
C7_Witness ==
    /\ Cur.pc = "exited"
    /\ Cur.failed_at = "save_json"
    /\ fs.txt = [st |-> "ok", data |-> Cur.report]
    /\ Cur.report.generated = Now(started, 1)
    /\ fs.json.st = "corrupt"
    /\ ArchiveHolds(Cur)
    /\ ~Cur.stdout

\* pr was given --summary and an envelope naming a transcript that exists,
\* and has exited
C8_Case(pr) ==
    /\ pr.summary
    /\ pr.pc = "exited" /\ pr.failed_at # "stdin"
    /\ pr.input_data.transcript_path.t = "str"
    /\ PathExists(pr.input_data.transcript_path.s)

\* C8 as written: with --summary and a transcript that exists both summary
\* files are written from a SessionInfo of the transcript, for every content
\* of the transcript, one with no parseable line included.
C8_AsWritten ==
    (C8_Case(Cur) /\ Cur.failed_at \in {"", "print"}) =>
        /\ WroteBoth(started)
        /\ Cur.info.total_messages = Len(Cur.messages)

C8_Outcome ==
    C8_Case(Cur) =>
        /\ (Cur.messages # <<>> /\ Cur.failed_at \in {"", "print"}) =>
              /\ WroteBoth(started)
              /\ Cur.info \in {r.info : r \in extract_session_info(Cur.messages)}
              /\ Cur.info.total_messages = Len(Cur.messages)
        /\ Cur.messages = <<>> => (Cur.failed_at \in {"", "logdir", "read_log",
                                                      "open_log", "dump_log"}
                                   /\ Cur.info = EmptyInfo)
        /\ Cur.stdout <=> (Cur.messages # <<>> /\ Cur.failed_at = "")

C8_WrittenFromRecords ==
    (fs'.txt # fs.txt \/ fs'.json # fs.json) =>
        /\ Cur.summary
        /\ Cur.messages # <<>>
        /\ Cur.messages \in {parse_transcript(Cur.input_data.transcript_path.s, TRUE)}

\* C8 amended: with --summary and a transcript that exists, the pipeline
\* runs when the transcript gave a record: then, unless a step raises, both
\* summary files are written from the SessionInfo of the records and the
\* report is printed.  A transcript that gave no record gets no SessionInfo,
\* and no step of the invocation changes a summary file.
C8_PipelineWhenRecords == []C8_Outcome /\ [][C8_WrittenFromRecords]_vars

\* a transcript with records went through the whole pipeline
C8_Witness ==
    /\ C8_Case(Cur)
    /\ Cur.input_data.transcript_path = JStr("/t/ok.jsonl")
    /\ Cur.failed_at = ""
    /\ Len(Cur.messages) = 4
    /\ WroteBoth(started)
    /\ fs.json.data.info.total_messages = 4
    /\ Cur.stdout


====
